---- MODULE Spec2Model ----
(***************************************************************************)
(* A model of the algorithmic parts of the LinkedIn Ads connector          *)
(* (source_linkedin_ads/components.py) and of the file-based schema helper *)
(* (airbyte_cdk/sources/file_based/schema_helpers.py).                     *)
(*                                                                         *)
(* Every component is one record-valued variable whose fields carry the    *)
(* names of the locals and attributes of the Python code.  A component     *)
(* that a specification does not exercise stays Idle.                      *)
(***************************************************************************)
EXTENDS Integers, Sequences, FiniteSets, TLC

VARIABLES
    read_pages,           \* LinkedInAdsCustomRetriever._read_pages
    partition_daterange,  \* AnalyticsDatetimeBasedCursor._partition_daterange
    chunk_fields,         \* AnalyticsDatetimeBasedCursor.chunk_analytics_fields
    filter_records,       \* LinkedInSemiIncrementalFilter.filter_records
    read_records,         \* LinkedInAdsCustomRetriever.read_records
    merge_schemas,        \* schema_helpers.merge_schemas
    rfc3339,              \* LinkedInAdsRecordExtractor._date_time_to_rfc3339
    merge_caller,         \* a caller of merge_schemas and the dicts it holds
    slice_fetch           \* read_records over _read_pages, for one slice

vars == <<read_pages, partition_daterange, chunk_fields, filter_records,
          read_records, merge_schemas, rfc3339,
          merge_caller, slice_fetch>>

\* Python's None, for string-valued slots.
None == "None"

\* A component no call is running in.
Idle == [pc |-> "idle"]

\* The sequences over S of length at most n.
SeqUpTo(S, n) == UNION {[1..k -> S] : k \in 0..n}

RECURSIVE Concat(_)
\* The concatenation of a sequence of sequences.
Concat(ss) == IF ss = <<>> THEN <<>> ELSE Head(ss) \o Concat(Tail(ss))

(***************************************************************************)
(* chunk_analytics_fields: the field chunker (components.py 95-111).       *)
(* Python lists are objects: the heap is the sequence of the list objects  *)
(* alive in a call, a reference is an index into it.                       *)
(***************************************************************************)

\* Longest field list passed in.
MaxFields == 4

\* Largest chunk size passed in.
MaxChunkSize == 3

\* Calls made on the same field list.
MaxCalls == 2

\* The field names a list is made of.
FieldNames == {"dateRange", "pivotValues", "clicks", "likes"}

\* The elements of a list.
Range(s) == {s[i] : i \in 1..Len(s)}

Min(a, b) == IF a <= b THEN a ELSE b

\* A slice that is the list itself when it spans the whole list.
SliceAliasing(heap, ref, lo, hi) ==
    IF lo = 0 /\ hi >= Len(heap[ref])
    THEN [heap |-> heap, ref |-> ref]
    ELSE [heap |-> Append(heap, SubSeq(heap[ref], lo + 1, Min(hi, Len(heap[ref])))),
          ref |-> Len(heap) + 1]

\* fields[lo : hi] of line 104: a new list object holding the elements at
\* the 0-based places lo .. hi - 1 that exist.
Slice(heap, ref, lo, hi) ==
    [heap |-> Append(heap, SubSeq(heap[ref], lo + 1, Min(hi, Len(heap[ref])))),
     ref |-> Len(heap) + 1]

RECURSIVE MakeChunks(_, _, _, _, _)
\* Line 104: fields[f : f + fields_chunk_size] for f in
\* range(0, len(fields), fields_chunk_size), as a list of references.
MakeChunks(heap, fields, fields_chunk_size, f, stop) ==
    IF f >= stop
    THEN [heap |-> heap, chunks |-> <<>>]
    ELSE LET s == Slice(heap, fields, f, f + fields_chunk_size)
             rest == MakeChunks(s.heap, fields, fields_chunk_size,
                                f + fields_chunk_size, stop)
         IN [heap |-> rest.heap, chunks |-> <<s.ref>> \o rest.chunks]

\* Lines 107-110: if x not in chunk: chunk.append(x), in place.
AppendIfMissing(heap, chunk, x) ==
    IF x \in Range(heap[chunk]) THEN heap
    ELSE [heap EXCEPT ![chunk] = Append(@, x)]

RECURSIVE AddBaseFields(_, _)
\* Lines 106-110: the loop over the chunks.
AddBaseFields(heap, chunks) ==
    IF chunks = <<>> THEN heap
    ELSE AddBaseFields(
            AppendIfMissing(AppendIfMissing(heap, Head(chunks), "dateRange"),
                            Head(chunks), "pivotValues"),
            Tail(chunks))

\* Lines 104-111 on the heap: the heap the call leaves and the references
\* it yields.
ChunkAnalyticsFieldsOn(heap, fields, fields_chunk_size) ==
    LET made == MakeChunks(heap, fields, fields_chunk_size, 0, Len(heap[fields]))
    IN [heap |-> AddBaseFields(made.heap, made.chunks), chunks |-> made.chunks]

\* The lists a call yields, for a caller that holds no reference to them.
ChunkAnalyticsFields(fields, fields_chunk_size) ==
    LET r == ChunkAnalyticsFieldsOn(<<fields>>, 1, fields_chunk_size)
    IN [i \in 1..Len(r.chunks) |-> r.heap[r.chunks[i]]]

ChunkFieldsFrame ==
    UNCHANGED <<read_pages, partition_daterange, filter_records,
                read_records, merge_schemas, rfc3339,
                merge_caller, slice_fetch>>

\* A caller holding a field list (heap[1]) and a positive chunk size.
ChunkFieldsInit ==
    /\ \E fs \in SeqUpTo(FieldNames, MaxFields), n \in 1..MaxChunkSize :
        chunk_fields = [pc |-> "ready",
                        heap |-> <<fs>>,
                        fields |-> 1,
                        fields_chunk_size |-> n,
                        fields_arg |-> fs,     \* the list as first passed
                        yielded |-> <<>>,      \* the chunks of the last call
                        previous |-> <<>>,     \* the chunks of the call before
                        calls |-> 0]
    /\ read_pages = Idle
    /\ partition_daterange = Idle
    /\ filter_records = Idle
    /\ read_records = Idle
    /\ merge_schemas = Idle
    /\ rfc3339 = Idle
    /\ merge_caller = Idle
    /\ slice_fetch = Idle

\* One call, consumed to its end; the chunk objects of an earlier call are
\* kept by value only.
ChunkAnalyticsFieldsCall ==
    /\ chunk_fields.pc = "ready"
    /\ chunk_fields.calls < MaxCalls
    /\ LET heap0 == <<chunk_fields.heap[chunk_fields.fields]>>
           r == ChunkAnalyticsFieldsOn(heap0, 1, chunk_fields.fields_chunk_size)
       IN chunk_fields' = [chunk_fields EXCEPT
            !.heap = r.heap,
            !.yielded = [i \in 1..Len(r.chunks) |-> r.heap[r.chunks[i]]],
            !.previous = chunk_fields.yielded,
            !.calls = @ + 1]
    /\ ChunkFieldsFrame

ChunkFieldsNext == ChunkAnalyticsFieldsCall

SpecChunkFields == ChunkFieldsInit /\ [][ChunkFieldsNext]_vars

\* The part of chunk i that was cut from the field list: its first elements,
\* as many as the i-th run of the list has.
NonForced(chunk, i, fields, n) ==
    SubSeq(chunk, 1, Min(n, Len(fields) - (i - 1) * n))

\* What follows that part: the elements the chunker appended.
Forced(chunk, i, fields, n) ==
    SubSeq(chunk, Min(n, Len(fields) - (i - 1) * n) + 1, Len(chunk))

\* C4: every chunk holds dateRange and pivotValues and has at most n + 2
\* elements; the chunks' non-forced elements, concatenated, are the field
\* list in its order, the forced ones being only a dateRange or pivotValues
\* the chunk lacked; the caller's list is not modified, and a second call
\* yields the same chunks.
C4_ChunksCoverFieldsInOrder ==
    (chunk_fields.pc = "ready" /\ chunk_fields.calls >= 1) =>
        LET cs == chunk_fields.yielded
            fs == chunk_fields.fields_arg
            n == chunk_fields.fields_chunk_size
        IN /\ \A i \in 1..Len(cs) :
                /\ {"dateRange", "pivotValues"} \subseteq Range(cs[i])
                /\ Len(cs[i]) <= n + 2
                /\ Range(Forced(cs[i], i, fs, n)) \subseteq {"dateRange", "pivotValues"}
                /\ Range(Forced(cs[i], i, fs, n)) \cap Range(NonForced(cs[i], i, fs, n)) = {}
           /\ Concat([i \in 1..Len(cs) |-> NonForced(cs[i], i, fs, n)]) = fs
           /\ chunk_fields.heap[chunk_fields.fields] = fs
           /\ chunk_fields.calls >= 2 => chunk_fields.previous = cs

\* Two calls on a list of several chunks, one that lacked both base fields
\* and one that held dateRange already.
C4_Witness ==
    /\ chunk_fields.pc = "ready"
    /\ chunk_fields.calls = 2
    /\ Len(chunk_fields.yielded) >= 2
    /\ \E i \in 1..Len(chunk_fields.yielded) :
        Len(Forced(chunk_fields.yielded[i], i, chunk_fields.fields_arg,
                   chunk_fields.fields_chunk_size)) = 2
    /\ \E i \in 1..Len(chunk_fields.yielded) :
        "dateRange" \in Range(NonForced(chunk_fields.yielded[i], i,
            chunk_fields.fields_arg, chunk_fields.fields_chunk_size))

(***************************************************************************)
(* _partition_daterange: the date range partitioner (components.py         *)
(* 113-144).  A datetime is the number of its day, counted from Epoch;     *)
(* the model's resolution is the day.                                      *)
(***************************************************************************)

\* The first day a range may start at, counted from Epoch: 2024-01-28.
FirstDay == 27

\* A range starts on one of the days FirstDay .. FirstDay + MaxStartSpan
\* and ends on one of FirstDay .. FirstDay + MaxSpan (past 2024-02-29).
MaxStartSpan == 3

MaxSpan == 34

\* Longest step given in days; a step may also be one calendar month.
MaxStepDays == 3

\* Largest cursor granularity, in days.
MaxGranularity == 2

\* FIELDS_CHUNK_SIZE of utils.py (18 in the connector), scaled to the
\* model's catalog.
FIELDS_CHUNK_SIZE == 2

\* ANALYTICS_FIELDS_V2 of utils.py: the fixed, ordered catalog of fields.
ANALYTICS_FIELDS_V2 == <<"dateRange", "impressions", "clicks", "pivotValues", "likes">>

\* Day 0.
Epoch == [year |-> 2024, month |-> 1, day |-> 1]

IsLeap(y) == (y % 4 = 0 /\ y % 100 # 0) \/ y % 400 = 0

DaysInMonth(y, m) ==
    IF m = 2 THEN (IF IsLeap(y) THEN 29 ELSE 28)
    ELSE IF m \in {4, 6, 9, 11} THEN 30 ELSE 31

RECURSIVE FromOrdinal(_, _, _)
\* The date n days after the first of month m of year y.
FromOrdinal(n, y, m) ==
    IF n < DaysInMonth(y, m)
    THEN [year |-> y, month |-> m, day |-> n + 1]
    ELSE FromOrdinal(n - DaysInMonth(y, m),
                     IF m = 12 THEN y + 1 ELSE y,
                     IF m = 12 THEN 1 ELSE m + 1)

\* datetime.year, .month, .day (lines 125-130).
DateOf(n) == FromOrdinal(n, Epoch.year, Epoch.month)

RECURSIVE DaysBefore(_, _)
\* The days from Epoch to the first of month m of year y.
DaysBefore(y, m) ==
    IF y = Epoch.year /\ m = Epoch.month THEN 0
    ELSE LET py == IF m = 1 THEN y - 1 ELSE y
             pm == IF m = 1 THEN 12 ELSE m - 1
         IN DaysBefore(py, pm) + DaysInMonth(py, pm)

\* The datetime of a date.
ToOrdinal(d) == DaysBefore(d.year, d.month) + d.day - 1

\* start + step for a timedelta (months = 0) or an isodate Duration: the
\* months are added first, the day cut to the length of the month reached,
\* then the days.
AddDuration(n, step) ==
    LET d == DateOf(n)
        m0 == d.month + step.months - 1
        newyear == d.year + (m0 \div 12)
        newmonth == (m0 % 12) + 1
        maxdays == DaysInMonth(newyear, newmonth)
        newday == IF d.day > maxdays THEN maxdays ELSE d.day
    IN ToOrdinal([year |-> newyear, month |-> newmonth, day |-> newday]) + step.days

\* self._evaluate_next_start_date_safely(start, step): start + step; the
\* model's dates stay clear of datetime.max, where the sum overflows.
EvaluateNextStartDateSafely(start, step) == AddDuration(start, step)

\* self._get_date(cursor_value, default_date, comparator).
GetDate(cursor_value, default_date, comparator) ==
    IF comparator = "min"
    THEN (IF cursor_value <= default_date THEN cursor_value ELSE default_date)
    ELSE (IF cursor_value >= default_date THEN cursor_value ELSE default_date)

\* self._format_datetime(dt) with a day-resolution format.
FormatDatetime(n) == <<DateOf(n).year, DateOf(n).month, DateOf(n).day>>

RECURSIVE Join(_, _)
\* sep.join(strings), as the sequence of its pieces.
Join(sep, strings) ==
    IF Len(strings) <= 1 THEN strings
    ELSE <<Head(strings), sep>> \o Join(sep, Tail(strings))

\* An end date that is not cut to the overall end.
EndDateUnclamped(next_start, cursor_granularity, end) ==
    next_start - cursor_granularity

\* Line 121: end_date = self._get_date(next_start - granularity, end, min).
EndDate(next_start, cursor_granularity, end) ==
    GetDate(next_start - cursor_granularity, end, "min")

\* A parameter set that takes the end's sub-fields from the next start.
DateSliceOfNextStart(start, end_date, fields_set) ==
    [k \in {"start_time", "end_time", "fields", "start.day", "start.month",
            "start.year", "end.day", "end.month", "end.year"} |->
        CASE k = "start_time" -> FormatDatetime(start)
          [] k = "end_time" -> FormatDatetime(end_date)
          [] k = "fields" -> Join(",", fields_set)
          [] k = "start.day" -> DateOf(start).day
          [] k = "start.month" -> DateOf(start).month
          [] k = "start.year" -> DateOf(start).year
          [] k = "end.day" -> DateOf(end_date + 1).day
          [] k = "end.month" -> DateOf(end_date + 1).month
          [] k = "end.year" -> DateOf(end_date + 1).year]

\* Lines 124-141: the request-parameter-set of one field chunk; start_field
\* and end_field are the configured names, here start_time and end_time.
DateSliceWithFields(start, end_date, fields_set) ==
    [k \in {"start_time", "end_time", "fields", "start.day", "start.month",
            "start.year", "end.day", "end.month", "end.year"} |->
        CASE k = "start_time" -> FormatDatetime(start)
          [] k = "end_time" -> FormatDatetime(end_date)
          [] k = "fields" -> Join(",", fields_set)
          [] k = "start.day" -> DateOf(start).day
          [] k = "start.month" -> DateOf(start).month
          [] k = "start.year" -> DateOf(start).year
          [] k = "end.day" -> DateOf(end_date).day
          [] k = "end.month" -> DateOf(end_date).month
          [] k = "end.year" -> DateOf(end_date).year]

\* The steps of a run: a timedelta of whole days, at least the granularity
\* (the smallest time unit), or a Duration of one month.
Steps(cursor_granularity) ==
    [months : {0}, days : cursor_granularity..MaxStepDays]
    \cup {[months |-> 1, days |-> 0]}

PartitionFrame ==
    UNCHANGED <<read_pages, chunk_fields, filter_records, read_records,
                merge_schemas, rfc3339,
                merge_caller, slice_fetch>>

\* The call's arguments and line 118.
PartitionInit ==
    /\ \E start \in FirstDay..(FirstDay + MaxStartSpan),
          end \in FirstDay..(FirstDay + MaxSpan),
          g \in 1..MaxGranularity :
        \E step \in Steps(g) :
            partition_daterange = [pc |-> "loop",
                                   start |-> start,
                                   end |-> end,
                                   step |-> step,
                                   cursor_granularity |-> g,
                                   start_arg |-> start,   \* start as passed
                                   dates |-> <<>>]
    /\ read_pages = Idle
    /\ chunk_fields = Idle
    /\ filter_records = Idle
    /\ read_records = Idle
    /\ merge_schemas = Idle
    /\ rfc3339 = Idle
    /\ merge_caller = Idle
    /\ slice_fetch = Idle

\* Lines 119-143: one turn of the loop.
PartitionStep ==
    /\ partition_daterange.pc = "loop"
    /\ partition_daterange.start <= partition_daterange.end
    /\ LET start == partition_daterange.start
           next_start == EvaluateNextStartDateSafely(start, partition_daterange.step)
           end_date == EndDate(next_start, partition_daterange.cursor_granularity,
                               partition_daterange.end)
           chunks == ChunkAnalyticsFields(ANALYTICS_FIELDS_V2, FIELDS_CHUNK_SIZE)
           date_slice_with_fields ==
               [i \in 1..Len(chunks) |-> DateSliceWithFields(start, end_date, chunks[i])]
       IN partition_daterange' = [partition_daterange EXCEPT
            !.dates = Append(@, [partition |-> <<>>,
                                 cursor_slice |-> [field_date_chunks |-> date_slice_with_fields]]),
            !.start = next_start]
    /\ PartitionFrame

\* Lines 119 and 144: the loop ends, the slices are returned.
PartitionReturn ==
    /\ partition_daterange.pc = "loop"
    /\ partition_daterange.start > partition_daterange.end
    /\ partition_daterange' = [partition_daterange EXCEPT !.pc = "returned"]
    /\ PartitionFrame

PartitionNext ==
    \/ PartitionStep
    \/ PartitionReturn

SpecPartition == PartitionInit /\ [][PartitionNext]_vars

\* The window of a slice, read back from the numeric sub-fields of its
\* first parameter set.
WindowStart(slice) ==
    LET c == slice.cursor_slice.field_date_chunks[1]
    IN ToOrdinal([year |-> c["start.year"], month |-> c["start.month"],
                  day |-> c["start.day"]])

WindowEnd(slice) ==
    LET c == slice.cursor_slice.field_date_chunks[1]
    IN ToOrdinal([year |-> c["end.year"], month |-> c["end.month"],
                  day |-> c["end.day"]])

\* The days of a window.
WindowDays(slice) == WindowStart(slice)..WindowEnd(slice)

\* C2: the windows are contiguous and do not overlap: the first starts at
\* start, each next one at the previous start plus step; each ends at
\* min(next start - granularity, end); no day lies in two windows; no window
\* ends after the overall end.
C2_WindowsContiguousDisjoint ==
    LET ds == partition_daterange.dates
        step == partition_daterange.step
        g == partition_daterange.cursor_granularity
        end == partition_daterange.end
    IN partition_daterange.pc \in {"loop", "returned"} =>
        /\ \A i \in 1..Len(ds) :
            /\ WindowStart(ds[i]) =
                   IF i = 1 THEN partition_daterange.start_arg
                   ELSE AddDuration(WindowStart(ds[i - 1]), step)
            /\ WindowEnd(ds[i]) =
                   Min(AddDuration(WindowStart(ds[i]), step) - g, end)
            /\ WindowEnd(ds[i]) <= end
        /\ \A i, j \in 1..Len(ds) :
            i < j => WindowDays(ds[i]) \cap WindowDays(ds[j]) = {}
        /\ (partition_daterange.pc = "returned"
                /\ partition_daterange.start_arg <= end) => ds # <<>>

\* A run of three windows or more whose last window was cut to the end.
C2_Witness ==
    LET ds == partition_daterange.dates IN
    /\ partition_daterange.pc = "returned"
    /\ Len(ds) >= 3
    /\ WindowEnd(ds[Len(ds)]) = partition_daterange.end
    /\ AddDuration(WindowStart(ds[Len(ds)]), partition_daterange.step)
           - partition_daterange.cursor_granularity > partition_daterange.end

\* C3: when start = end, exactly one slice is produced; its window is
\* [start, end]; it carries one parameter set per field chunk, in chunk
\* order, each with the same formatted boundaries and the six numeric
\* sub-fields of that window.
C3_SingleSliceWhenStartIsEnd ==
    LET ds == partition_daterange.dates
        start == partition_daterange.start_arg
        end == partition_daterange.end
        chunks == ChunkAnalyticsFields(ANALYTICS_FIELDS_V2, FIELDS_CHUNK_SIZE)
    IN (partition_daterange.pc \in {"loop", "returned"} /\ start = end) =>
        /\ Len(ds) <= 1
        /\ partition_daterange.pc = "returned" => Len(ds) = 1
        /\ \A s \in 1..Len(ds) :
            LET sets == ds[s].cursor_slice.field_date_chunks IN
            /\ Len(sets) = Len(chunks)
            /\ \A i \in 1..Len(sets) :
                /\ sets[i]["fields"] = Join(",", chunks[i])
                /\ sets[i]["start_time"] = FormatDatetime(start)
                /\ sets[i]["end_time"] = FormatDatetime(end)
                /\ [year |-> sets[i]["start.year"], month |-> sets[i]["start.month"],
                    day |-> sets[i]["start.day"]] = DateOf(start)
                /\ [year |-> sets[i]["end.year"], month |-> sets[i]["end.month"],
                    day |-> sets[i]["end.day"]] = DateOf(end)

\* A returned run on start = end = 2024-01-31, of several field chunks.
C3_Witness ==
    /\ partition_daterange.pc = "returned"
    /\ partition_daterange.start_arg = partition_daterange.end
    /\ DateOf(partition_daterange.end) = [year |-> 2024, month |-> 1, day |-> 31]
    /\ Len(partition_daterange.dates) = 1
    /\ Len(partition_daterange.dates[1].cursor_slice.field_date_chunks) >= 2

(***************************************************************************)
(* LinkedInSemiIncrementalFilter: the cursor filter (components.py         *)
(* 163-209).  A date string is the number of its day: strings of one date  *)
(* format compare as their dates do.  0 is None, and the empty string.     *)
(***************************************************************************)

\* The days a start date, a persisted cursor or a record's cursor may name.
MaxDate == 3

\* Records passed to one call.
MaxRecords == 2

\* The identities of the partitions (the "id" of a slice).
PartitionIds == {"a", "b"}

\* Python's None where numbers are held; it is falsy, like 0 and "".
NoValue == 0

\* bool(x) of a number, a string or None.
Truthy(x) == x # NoValue

\* datetime.strptime(s, "%Y-%m-%d").timestamp() * 1000 (line 187).
TimestampMs(d) == (d * 86400) * 1000

\* Whether the cursor is compared as a timestamp (line 188).
IsTimestamp(cursor_field, format) ==
    cursor_field = "lastModifiedAt" \/ format = "timestamp"

\* The values the cursor field of a record, and a persisted cursor, take.
CursorValues(cursor_field, format) ==
    IF IsTimestamp(cursor_field, format)
    THEN {TimestampMs(d) : d \in 1..MaxDate}
    ELSE 1..MaxDate

\* The records of a response: with the cursor field or without it.
FilterRecordSet(cursor_field, format) ==
    {[k \in {"id"} |-> "x"]}
    \cup {[k \in {"id", cursor_field} |-> IF k = "id" THEN "x" ELSE v] :
            v \in CursorValues(cursor_field, format)}

\* stream_state["states"]: at most one entry per partition identity.
StreamStates(cursor_field, format) ==
    LET entry(id, v) == [partition |-> [id |-> id],
                         cursor |-> [k \in {cursor_field} |-> v]]
        V == CursorValues(cursor_field, format)
    IN {<<>>}
       \cup {<<entry(id, v)>> : id \in PartitionIds, v \in V}
       \cup {<<entry("a", v), entry("b", w)>> : v \in V, w \in V}

\* max() of the values that filter(None, ...) keeps, or the default.
MaxOfTruthy(values, default) ==
    LET kept == {v \in values : Truthy(v)}
    IN IF kept = {} THEN default
       ELSE CHOOSE m \in kept : \A v \in kept : v <= m

\* _get_filter_date, lines 198-209.
GetFilterDate(start_date, state_value, cursor_field) ==
    LET start_date_timestamp == IF Truthy(start_date) THEN start_date ELSE NoValue
        state_value_timestamp ==
            IF state_value # <<>> THEN state_value[1].cursor[cursor_field]
            ELSE NoValue
    IN IF Truthy(state_value_timestamp)
       THEN MaxOfTruthy({start_date_timestamp, state_value_timestamp},
                        start_date_timestamp)
       ELSE start_date_timestamp

\* Lines 180-184: the entries of the state whose partition is the slice's.
CurrentState(stream_state, stream_slice) ==
    SelectSeq(stream_state, LAMBDA sv : sv.partition.id = stream_slice.id)

FilterFrame ==
    UNCHANGED <<read_pages, partition_daterange, chunk_fields, read_records,
                merge_schemas, rfc3339,
                merge_caller, slice_fetch>>

\* A filter (cursor_field, format), its config, and the arguments of a call.
FilterInit ==
    /\ \E cursor_field \in {"lastModified", "lastModifiedAt"},
          format \in {"", "timestamp"},
          start_date \in {NoValue} \cup 1..MaxDate,
          id \in PartitionIds :
        \E records \in SeqUpTo(FilterRecordSet(cursor_field, format), MaxRecords),
           stream_state \in StreamStates(cursor_field, format) :
            filter_records = [pc |-> "called",
                              cursor_field |-> cursor_field,
                              format |-> format,
                              config |-> [start_date |-> start_date],
                              records |-> records,
                              stream_state |-> stream_state,
                              stream_slice |-> [id |-> id],
                              cursor_value |-> NoValue,
                              result |-> <<>>,
                              error |-> None]
    /\ read_pages = Idle
    /\ partition_daterange = Idle
    /\ chunk_fields = Idle
    /\ read_records = Idle
    /\ merge_schemas = Idle
    /\ rfc3339 = Idle
    /\ merge_caller = Idle
    /\ slice_fetch = Idle

\* filter_records, lines 174-196.
FilterRecords ==
    /\ filter_records.pc = "called"
    /\ LET f == filter_records
           current_state == CurrentState(f.stream_state, f.stream_slice)
           timestamp == IsTimestamp(f.cursor_field, f.format)
           \* strptime(None, ...) raises TypeError
           strptime_raises == timestamp /\ f.config.start_date = NoValue
           start_date == IF timestamp THEN TimestampMs(f.config.start_date)
                         ELSE f.config.start_date
           cursor_value == GetFilterDate(start_date, current_state, f.cursor_field)
           \* record[self.cursor_field] raises KeyError
           lookup_raises == \E i \in 1..Len(f.records) :
                                f.cursor_field \notin DOMAIN f.records[i]
       IN IF strptime_raises
          THEN filter_records' = [f EXCEPT !.pc = "raised", !.error = "TypeError"]
          ELSE IF Truthy(cursor_value)
          THEN IF lookup_raises
               THEN filter_records' = [f EXCEPT !.pc = "raised",
                                                !.cursor_value = cursor_value,
                                                !.error = "KeyError"]
               ELSE filter_records' = [f EXCEPT !.pc = "returned",
                        !.cursor_value = cursor_value,
                        !.result = SelectSeq(f.records,
                            LAMBDA record : record[f.cursor_field] >= cursor_value)]
          ELSE filter_records' = [f EXCEPT !.pc = "returned",
                                           !.cursor_value = cursor_value,
                                           !.result = f.records]
    /\ FilterFrame

FilterNext == FilterRecords

SpecFilter == FilterInit /\ [][FilterNext]_vars

\* The persisted cursor value of the slice's partition identity, if any.
PersistedCursor ==
    LET f == filter_records
        es == {i \in 1..Len(f.stream_state) :
                  f.stream_state[i].partition.id = f.stream_slice.id}
    IN IF es = {} THEN NoValue
       ELSE f.stream_state[CHOOSE i \in es : TRUE].cursor[f.cursor_field]

\* The configured start date, if any, in the unit of the cursor field.
ConfiguredStart ==
    LET f == filter_records
    IN IF f.config.start_date = NoValue THEN NoValue
       ELSE IF IsTimestamp(f.cursor_field, f.format)
            THEN TimestampMs(f.config.start_date)
            ELSE f.config.start_date

\* The cutoff of spec 4.4: the later of the two when both exist, the one
\* that exists, or none.
EffectiveCutoff ==
    IF ConfiguredStart # NoValue /\ PersistedCursor # NoValue
    THEN (IF ConfiguredStart >= PersistedCursor THEN ConfiguredStart
          ELSE PersistedCursor)
    ELSE IF ConfiguredStart # NoValue THEN ConfiguredStart
    ELSE PersistedCursor

\* Every record passed in holds the cursor field.
AllHaveCursorField ==
    \A i \in 1..Len(filter_records.records) :
        filter_records.cursor_field \in DOMAIN filter_records.records[i]

\* The call returned the records at or above the cutoff, in their order, or
\* all of them when there is no cutoff.
ReturnedFilteredByCutoff ==
    /\ filter_records.pc = "returned"
    /\ filter_records.cursor_value = EffectiveCutoff
    /\ filter_records.result =
        IF EffectiveCutoff = NoValue THEN filter_records.records
        ELSE SelectSeq(filter_records.records,
                LAMBDA r : r[filter_records.cursor_field] >= EffectiveCutoff)

\* C5: the cutoff is the maximum of the configured start date and the
\* persisted cursor of the slice's partition when both exist, the one that
\* exists when only one does, and absent when neither does; with a cutoff
\* exactly the records whose cursor value is >= the cutoff are returned, in
\* their order; with none, all records are returned.
C5_CutoffAndInclusiveFilter ==
    (filter_records.pc \in {"returned", "raised"} /\ AllHaveCursorField) =>
        ReturnedFilteredByCutoff

\* The same, of the calls whose start date strptime is given (a configured
\* start date, or a cursor that is not compared as a timestamp).
FilterCutoffWhenStartDateParsed ==
    (/\ filter_records.pc \in {"returned", "raised"}
     /\ AllHaveCursorField
     /\ (filter_records.config.start_date # NoValue
            \/ ~IsTimestamp(filter_records.cursor_field, filter_records.format)))
        => ReturnedFilteredByCutoff

\* C7: with a cutoff, a record that lacks the cursor field does not make the
\* filter fail: it is not retained, and the other records are filtered as
\* usual.
C7_MissingCursorFieldNotRetained ==
    (/\ filter_records.pc \in {"returned", "raised"}
     /\ filter_records.error # "TypeError"
     /\ EffectiveCutoff # NoValue
     /\ ~AllHaveCursorField)
        => /\ filter_records.pc = "returned"
           /\ filter_records.result =
                SelectSeq(filter_records.records,
                    LAMBDA r : /\ filter_records.cursor_field \in DOMAIN r
                               /\ r[filter_records.cursor_field] >= EffectiveCutoff)

(***************************************************************************)
(* LinkedInAdsCustomRetriever.read_records: the merge of the field chunks  *)
(* of one slice by composite key (components.py 303-317).  A string is the *)
(* sequence of its characters.                                             *)
(***************************************************************************)

\* The field chunks (field_date_chunks) of a slice.
MaxFieldChunks == 2

\* The records the chunk requests of one slice yield in all.
MaxSliceRecords == 3

\* The end dates of the records: strings of one width.
EndDates == {<<"0", "1">>, <<"0", "2">>}

\* The pivot values of the records.
PivotValues == {<<"A">>, <<"B">>}

\* The analytics fields of a record, beside its key fields, and their values.
MetricFields == [name : {"clicks"}, value : {1, 2}] \cup [name : {"likes"}, value : {1}]

\* The records super().read_records yields for a chunk request: the key
\* fields, which every chunk asks for, and one analytics field.
ChunkRecords ==
    {[k \in {"end_date", "pivotValues", m.name} |->
        CASE k = "end_date" -> d
          [] k = "pivotValues" -> p
          [] OTHER -> m.value] :
     d \in EndDates, p \in PivotValues, m \in MetricFields}

\* Line 315: f"{record['end_date']}-{record['pivotValues']}".
MergeKey(record) == record["end_date"] \o <<"-">> \o record["pivotValues"]

\* An update that keeps the values the record held.
DictUpdateKeepOld(old, new) ==
    [k \in DOMAIN old \cup DOMAIN new |-> IF k \in DOMAIN old THEN old[k] ELSE new[k]]

\* dict.update: the fields of new are set, the other fields of old stay.
DictUpdate(old, new) ==
    [k \in DOMAIN old \cup DOMAIN new |-> IF k \in DOMAIN new THEN new[k] ELSE old[k]]

\* Line 315 on merged_records, a dict in insertion order held as the
\* sequence of its items: the item of the key is updated, a new key is
\* added at the end with the record's fields.
MergeInto(merged_records, record) ==
    LET key == MergeKey(record)
        at == {i \in 1..Len(merged_records) : merged_records[i].key = key}
    IN IF at = {}
       THEN Append(merged_records, [key |-> key, value |-> DictUpdate(<<>>, record)])
       ELSE [i \in 1..Len(merged_records) |->
                IF i \in at
                THEN [key |-> key, value |-> DictUpdate(merged_records[i].value, record)]
                ELSE merged_records[i]]

ReadRecordsFrame ==
    UNCHANGED <<read_pages, partition_daterange, chunk_fields, filter_records,
                merge_schemas, rfc3339,
                merge_caller, slice_fetch>>

\* Lines 308-312: a slice with its field chunks, nothing merged yet.
ReadRecordsInit ==
    /\ \E n \in 0..MaxFieldChunks :
        read_records = [pc |-> IF n = 0 THEN "merged" ELSE "chunk",
                        field_date_chunks |-> n,
                        field_slice |-> IF n = 0 THEN 0 ELSE 1,
                        merged_records |-> <<>>,
                        seen |-> <<>>,        \* every record read, with its chunk
                        emitted |-> <<>>,
                        error |-> None]
    /\ read_pages = Idle
    /\ partition_daterange = Idle
    /\ chunk_fields = Idle
    /\ filter_records = Idle
    /\ merge_schemas = Idle
    /\ rfc3339 = Idle
    /\ merge_caller = Idle
    /\ slice_fetch = Idle

\* Lines 314-315: the request of the current chunk yields a record, which is
\* merged under its key.
MergeRecord ==
    /\ read_records.pc = "chunk"
    /\ Len(read_records.seen) < MaxSliceRecords
    /\ \E record \in ChunkRecords :
        read_records' = [read_records EXCEPT
            !.merged_records = MergeInto(@, record),
            !.seen = Append(@, [chunk |-> read_records.field_slice, record |-> record])]
    /\ ReadRecordsFrame

\* Lines 312-314: the request of the current chunk is exhausted; the loop
\* goes to the next chunk or ends.
NextFieldSlice ==
    /\ read_records.pc = "chunk"
    /\ read_records' = [read_records EXCEPT
            !.pc = IF read_records.field_slice = read_records.field_date_chunks
                   THEN "merged" ELSE "chunk",
            !.field_slice = IF read_records.field_slice = read_records.field_date_chunks
                            THEN @ ELSE @ + 1]
    /\ ReadRecordsFrame

\* Line 314: the request of the current chunk raises (a failed fetch, or an
\* exception out of _read_pages); read_records ends without reaching line 317.
ChunkRequestRaises ==
    /\ read_records.pc = "chunk"
    /\ read_records' = [read_records EXCEPT !.pc = "raised", !.error = "Exception"]
    /\ ReadRecordsFrame

\* Line 317: yield from merged_records.values().
YieldMerged ==
    /\ read_records.pc = "merged"
    /\ read_records' = [read_records EXCEPT
            !.pc = "done",
            !.emitted = [i \in 1..Len(read_records.merged_records) |->
                            read_records.merged_records[i].value]]
    /\ ReadRecordsFrame

ReadRecordsNext ==
    \/ MergeRecord
    \/ NextFieldSlice
    \/ ChunkRequestRaises
    \/ YieldMerged

SpecReadRecords == ReadRecordsInit /\ [][ReadRecordsNext]_vars

\* The composite key (end_date, pivotValues) of a record.
CompositeKey(record) == <<record["end_date"], record["pivotValues"]>>

\* The places in seen of the records with composite key k that hold field f.
SeenWith(k, f) ==
    {i \in 1..Len(read_records.seen) :
        /\ CompositeKey(read_records.seen[i].record) = k
        /\ f \in DOMAIN read_records.seen[i].record}

\* C6: the output of a slice holds exactly one record per composite key
\* seen in a chunk response; that record holds the union of the fields of
\* the chunk records with the key, each field with the value of the latest
\* of them in chunk order; records of different keys are never merged.
C6_OneMergedRecordPerKey ==
    read_records.pc = "done" =>
        LET out == read_records.emitted
            seen == read_records.seen
            keys == {CompositeKey(seen[i].record) : i \in 1..Len(seen)}
        IN /\ Len(out) = Cardinality(keys)
           /\ \A k \in keys : \E i \in 1..Len(out) : CompositeKey(out[i]) = k
           /\ \A i \in 1..Len(out) :
                LET k == CompositeKey(out[i]) IN
                /\ DOMAIN out[i] =
                     UNION {DOMAIN seen[j].record :
                              j \in {j \in 1..Len(seen) : CompositeKey(seen[j].record) = k}}
                /\ \A f \in DOMAIN out[i] :
                     /\ SeenWith(k, f) # {}
                     /\ LET last == CHOOSE j \in SeenWith(k, f) :
                                        \A j2 \in SeenWith(k, f) : j2 <= j
                        IN out[i][f] = seen[last].record[f]

\* Two chunks gave the same key different values of one field, the later
\* chunk also another field, and a second key was seen.
C6_Witness ==
    /\ read_records.pc = "done"
    /\ Len(read_records.emitted) = 2
    /\ \E i, j \in 1..Len(read_records.seen) :
        LET a == read_records.seen[i]
            b == read_records.seen[j]
        IN /\ a.chunk < b.chunk
           /\ CompositeKey(a.record) = CompositeKey(b.record)
           /\ "clicks" \in DOMAIN a.record /\ "clicks" \in DOMAIN b.record
           /\ a.record["clicks"] # b.record["clicks"]

(***************************************************************************)
(* merge_schemas (schema_helpers.py 10-59).  A dict is the sequence of its *)
(* items, in insertion order.                                              *)
(***************************************************************************)

\* The keys of the schemas.
SchemaKeys == {"a", "b"}

\* Line 13.
supported_types == {"string"}

\* The values a schema may hold for a key: the supported type, another
\* concrete type, or None.
SchemaTypes == {"string", "integer", None}

\* The keys of a dict.
Keys(schema) == {schema[i].key : i \in 1..Len(schema)}

\* dict.get(k): the value of the key, None if the dict lacks it.
Get(schema, k) ==
    IF k \in Keys(schema)
    THEN schema[CHOOSE i \in 1..Len(schema) : schema[i].key = k].type
    ELSE None

\* The dicts over the keys: every order of every set of keys.
Schemas ==
    {sc \in SeqUpTo([key : SchemaKeys, type : SchemaTypes], Cardinality(SchemaKeys)) :
        \A i, j \in 1..Len(sc) : i # j => sc[i].key # sc[j].key}

\* d[k] = t: in place for a key of the dict, at the end for a new one.
SetItem(schema, k, t) ==
    IF k \in Keys(schema)
    THEN [i \in 1..Len(schema) |->
            IF schema[i].key = k THEN [key |-> k, type |-> t] ELSE schema[i]]
    ELSE Append(schema, [key |-> k, type |-> t])

\* Lines 48-49.
IsValidType(t) == t \in supported_types

\* Lines 32-33: the first item of schema1, then of schema2, whose type is
\* not valid, as the AssertionError it raises; an error of no type if there
\* is none.
FirstInvalid(items) ==
    LET bad == {i \in 1..Len(items) : ~IsValidType(items[i].type)}
    IN IF bad = {} THEN [type |-> None]
       ELSE LET i == CHOOSE i \in bad : \A j \in bad : i <= j
            IN [type |-> "AssertionError", key |-> items[i].key,
                types |-> <<items[i].type>>]

\* A widening that settles a conflict for the first type.
ChooseWiderTypeCoercing(key, t1, t2) ==
    IF t1 = None /\ t2 = None
    THEN [raised |-> TRUE,
          error |-> [type |-> "SchemaInferenceError", key |-> key, types |-> <<>>]]
    ELSE [raised |-> FALSE, value |-> IF t1 # None THEN t1 ELSE t2]

\* _choose_wider_type, lines 52-59: the type chosen, or the error raised.
ChooseWiderType(key, t1, t2) ==
    IF t1 = None /\ t2 = None
    THEN [raised |-> TRUE,
          error |-> [type |-> "SchemaInferenceError", key |-> key, types |-> <<>>]]
    ELSE IF t1 = None \/ t2 = None
    THEN [raised |-> FALSE, value |-> IF t1 # None THEN t1 ELSE t2]
    ELSE [raised |-> TRUE,
          error |-> [type |-> "SchemaInferenceError", key |-> key, types |-> <<t1, t2>>]]

\* A turn of the loop that leaves out the keys the merged schema lacks.
MergeItemSkippingNew(merged_schema, k2, t2) ==
    LET t1 == Get(merged_schema, k2)
    IN IF t1 = None \/ t1 = t2
       THEN [raised |-> FALSE, merged_schema |-> merged_schema]
       ELSE LET w == ChooseWiderType(k2, t1, t2)
            IN IF w.raised THEN [raised |-> TRUE, error |-> w.error]
               ELSE [raised |-> FALSE, merged_schema |-> SetItem(merged_schema, k2, w.value)]

\* Lines 37-43: one turn of the loop over the items of schema2.
MergeItem(merged_schema, k2, t2) ==
    LET t1 == Get(merged_schema, k2)
    IN IF t1 = None
       THEN [raised |-> FALSE, merged_schema |-> SetItem(merged_schema, k2, t2)]
       ELSE IF t1 = t2
       THEN [raised |-> FALSE, merged_schema |-> merged_schema]
       ELSE LET w == ChooseWiderType(k2, t1, t2)
            IN IF w.raised THEN [raised |-> TRUE, error |-> w.error]
               ELSE [raised |-> FALSE, merged_schema |-> SetItem(merged_schema, k2, w.value)]

RECURSIVE MergeLoop(_, _)
\* Lines 36-43: the loop, from the merged schema so far and the items left.
MergeLoop(merged_schema, items) ==
    IF items = <<>> THEN [raised |-> FALSE, merged_schema |-> merged_schema]
    ELSE LET r == MergeItem(merged_schema, Head(items).key, Head(items).type)
         IN IF r.raised THEN r ELSE MergeLoop(r.merged_schema, Tail(items))

\* merge_schemas, lines 16-45; the assert statements run unless Python runs
\* with -O.
MergeSchemas(schema1, schema2, assertions) ==
    LET invalid == FirstInvalid(schema1 \o schema2)
    IN IF assertions /\ invalid.type # None
       THEN [raised |-> TRUE, error |-> invalid]
       ELSE MergeLoop(schema1, schema2)   \* merged_schema = deepcopy(schema1)

MergeSchemasFrame ==
    UNCHANGED <<read_pages, partition_daterange, chunk_fields, filter_records,
                read_records, rfc3339,
                merge_caller, slice_fetch>>

\* A call on two schemas.
MergeSchemasInit ==
    /\ \E schema1 \in Schemas, schema2 \in Schemas, assertions \in BOOLEAN :
        merge_schemas = [pc |-> "called",
                         schema1 |-> schema1,
                         schema2 |-> schema2,
                         assertions |-> assertions,
                         merged_schema |-> <<>>,
                         error |-> [type |-> None]]
    /\ read_pages = Idle
    /\ partition_daterange = Idle
    /\ chunk_fields = Idle
    /\ filter_records = Idle
    /\ read_records = Idle
    /\ rfc3339 = Idle
    /\ merge_caller = Idle
    /\ slice_fetch = Idle

\* The call returns the merged schema or raises.
MergeSchemasCall ==
    /\ merge_schemas.pc = "called"
    /\ LET r == MergeSchemas(merge_schemas.schema1, merge_schemas.schema2,
                             merge_schemas.assertions)
       IN IF r.raised
          THEN merge_schemas' = [merge_schemas EXCEPT !.pc = "raised", !.error = r.error]
          ELSE merge_schemas' = [merge_schemas EXCEPT !.pc = "returned",
                                                      !.merged_schema = r.merged_schema]
    /\ MergeSchemasFrame

MergeSchemasNext == MergeSchemasCall

SpecMergeSchemas == MergeSchemasInit /\ [][MergeSchemasNext]_vars

\* A dict as the mapping it is: two dicts are equal when these are.
AsMapping(schema) == [k \in Keys(schema) |-> Get(schema, k)]

\* C8: of two schemas with disjoint keys and supported types the merge
\* holds exactly the keys of both, each with the type it had, and is the
\* merge of the two taken the other way round; and no successful merge lacks
\* a key of either input.
C8_DisjointMergeIsUnion ==
    LET s1 == merge_schemas.schema1
        s2 == merge_schemas.schema2
        out == merge_schemas.merged_schema
    IN /\ (/\ merge_schemas.pc \in {"returned", "raised"}
           /\ Keys(s1) \cap Keys(s2) = {}
           /\ \A k \in Keys(s1) : IsValidType(Get(s1, k))
           /\ \A k \in Keys(s2) : IsValidType(Get(s2, k)))
          => /\ merge_schemas.pc = "returned"
             /\ Keys(out) = Keys(s1) \cup Keys(s2)
             /\ \A k \in Keys(s1) : Get(out, k) = Get(s1, k)
             /\ \A k \in Keys(s2) : Get(out, k) = Get(s2, k)
             /\ LET back == MergeSchemas(s2, s1, merge_schemas.assertions)
                IN ~back.raised /\ AsMapping(back.merged_schema) = AsMapping(out)
       /\ merge_schemas.pc = "returned" => Keys(s1) \cup Keys(s2) \subseteq Keys(out)

\* A merge of two non-empty schemas with different keys.
C8_Witness ==
    /\ merge_schemas.pc = "returned"
    /\ merge_schemas.assertions
    /\ Keys(merge_schemas.schema1) = {"b"}
    /\ Keys(merge_schemas.schema2) = {"a"}
    /\ merge_schemas.merged_schema =
         <<[key |-> "b", type |-> "string"], [key |-> "a", type |-> "string"]>>

\* The keys both schemas hold with two different concrete types.
Conflicts ==
    {k \in Keys(merge_schemas.schema1) \cap Keys(merge_schemas.schema2) :
        /\ Get(merge_schemas.schema1, k) # None
        /\ Get(merge_schemas.schema2, k) # None
        /\ Get(merge_schemas.schema1, k) # Get(merge_schemas.schema2, k)}

\* The error is a SchemaInferenceError naming a conflicting key and its two
\* types.
RaisedSchemaInferenceError ==
    /\ merge_schemas.pc = "raised"
    /\ merge_schemas.error.type = "SchemaInferenceError"
    /\ merge_schemas.error.key \in Conflicts
    /\ merge_schemas.error.types =
         <<Get(merge_schemas.schema1, merge_schemas.error.key),
           Get(merge_schemas.schema2, merge_schemas.error.key)>>

Days == {1, 2}

Hours == {0, 10}

\* The values of the fields of a record: None, "", text that is no date
\* ("not-a-date"), a date ("2023-05-01"), a date-time with a Z
\* ("2023-05-01T10:00:00Z") or in RFC3339 form ("2023-05-01T10:00:00+00:00").
FieldValues ==
    {[fmt |-> f, day |-> 0, hour |-> 0] : f \in {"none", "empty", "text"}}
    \cup [fmt : {"date"}, day : Days, hour : {0}]
    \cup [fmt : {"zulu", "rfc3339"}, day : Days, hour : Hours]

\* The fields of a record.
RecordFields == {"lastModified", "created", "id"}

\* The records: dicts, as the sequences of their items.
NormalizerRecords ==
    {rec \in SeqUpTo([key : RecordFields, value : FieldValues], Cardinality(RecordFields)) :
        \A i, j \in 1..Len(rec) : i # j => rec[i].key # rec[j].key}

\* bool(value) of None or a string.
NonEmpty(value) == value.fmt \notin {"none", "empty"}

\* Whether pendulum.parse(value) returns; it raises ParserError otherwise.
Parses(value) == value.fmt \in {"date", "zulu", "rfc3339"}

\* pendulum.parse(value): the instant the string names, a date being its
\* midnight.
PendulumParse(value) ==
    [day |-> value.day, hour |-> IF value.fmt = "date" THEN 0 ELSE value.hour]

\* DateTime.to_rfc3339_string().
ToRfc3339String(dt) == [fmt |-> "rfc3339", day |-> dt.day, hour |-> dt.hour]

\* A test that takes every non-empty field for a date-time.
IsDateTimeItemOfAnyName(item, value) == NonEmpty(value)

\* Line 154: item in ["lastModified", "created"] and record[item].
IsDateTimeItem(item, value) ==
    item \in {"lastModified", "created"} /\ NonEmpty(value)

RECURSIVE DateTimeToRfc3339(_, _)
\* Lines 153-156: the loop over the items from place i on, rewriting the
\* record in place; the record it returns, or the error it raises.
DateTimeToRfc3339(record, i) ==
    IF i > Len(record) THEN [raised |-> FALSE, record |-> record]
    ELSE IF IsDateTimeItem(record[i].key, record[i].value)
    THEN IF Parses(record[i].value)
         THEN DateTimeToRfc3339(
                [record EXCEPT ![i].value = ToRfc3339String(PendulumParse(@))], i + 1)
         ELSE [raised |-> TRUE, record |-> record]
    ELSE DateTimeToRfc3339(record, i + 1)

Rfc3339Frame ==
    UNCHANGED <<read_pages, partition_daterange, chunk_fields, filter_records,
                read_records, merge_schemas,
                merge_caller, slice_fetch>>

\* A record of the response, about to be normalized (line 159).
Rfc3339Init ==
    /\ \E record \in NormalizerRecords :
        rfc3339 = [pc |-> "extracted",
                   record |-> record,
                   record_arg |-> record,   \* the record as extracted
                   emitted |-> <<>>,
                   error |-> None]
    /\ read_pages = Idle
    /\ partition_daterange = Idle
    /\ chunk_fields = Idle
    /\ filter_records = Idle
    /\ read_records = Idle
    /\ merge_schemas = Idle
    /\ merge_caller = Idle
    /\ slice_fetch = Idle

\* Line 160: yield self._date_time_to_rfc3339(record); the parser's error
\* leaves the generator before the record is yielded.
ExtractRecord ==
    /\ rfc3339.pc = "extracted"
    /\ LET r == DateTimeToRfc3339(rfc3339.record, 1)
       IN IF r.raised
          THEN rfc3339' = [rfc3339 EXCEPT !.pc = "raised", !.record = r.record,
                                          !.error = "ParserError"]
          ELSE rfc3339' = [rfc3339 EXCEPT !.pc = "yielded", !.record = r.record,
                                          !.emitted = <<r.record>>]
    /\ Rfc3339Frame

Rfc3339Next == ExtractRecord

SpecRfc3339 == Rfc3339Init /\ [][Rfc3339Next]_vars

\* A lastModified or created that is present and not empty.
DateTimeFieldAt(rec, i) ==
    /\ rec[i].key \in {"lastModified", "created"}
    /\ rec[i].value.fmt \notin {"none", "empty"}

\* C10: only the fields lastModified and created that are present and not
\* empty are rewritten, to the RFC3339 form of the instant they name; every
\* other field, and an empty lastModified or created, is unchanged, and no
\* field is added or removed; if such a field cannot be parsed the
\* normalization fails (RecordNormalizationError in the spec's words, the
\* parser's error in the code) and the record is not emitted.
C10_OnlyDateTimeFieldsRewritten ==
    rfc3339.pc \in {"yielded", "raised"} =>
        LET rec == rfc3339.record_arg
            unparseable == \E i \in 1..Len(rec) :
                              DateTimeFieldAt(rec, i) /\ rec[i].value.fmt = "text"
        IN IF unparseable
           THEN /\ rfc3339.pc = "raised"
                /\ rfc3339.error = "ParserError"
                /\ rfc3339.emitted = <<>>
           ELSE /\ rfc3339.pc = "yielded"
                /\ Len(rfc3339.emitted) = 1
                /\ LET out == rfc3339.emitted[1] IN
                   /\ Len(out) = Len(rec)
                   /\ \A i \in 1..Len(rec) :
                        /\ out[i].key = rec[i].key
                        /\ out[i].value =
                             IF DateTimeFieldAt(rec, i)
                             THEN [fmt |-> "rfc3339", day |-> rec[i].value.day,
                                   hour |-> IF rec[i].value.fmt = "date" THEN 0
                                            ELSE rec[i].value.hour]
                             ELSE rec[i].value

\* A record whose created was rewritten from the Z notation, whose
\* lastModified is empty and whose id holds a date string.
C10_Witness ==
    /\ rfc3339.pc = "yielded"
    /\ rfc3339.record_arg =
         <<[key |-> "created", value |-> [fmt |-> "zulu", day |-> 1, hour |-> 10]],
           [key |-> "lastModified", value |-> [fmt |-> "empty", day |-> 0, hour |-> 0]],
           [key |-> "id", value |-> [fmt |-> "date", day |-> 2, hour |-> 0]]>>
    /\ rfc3339.emitted =
         <<<<[key |-> "created", value |-> [fmt |-> "rfc3339", day |-> 1, hour |-> 10]],
             [key |-> "lastModified", value |-> [fmt |-> "empty", day |-> 0, hour |-> 0]],
             [key |-> "id", value |-> [fmt |-> "date", day |-> 2, hour |-> 0]]>>>>

(***************************************************************************)
(* merge_schemas and its caller (schema_helpers.py 32-45), statement by    *)
(* statement.  Dicts are objects: the heap is the sequence of the dicts    *)
(* alive, a reference is an index into it, 0 is a name not yet bound.  The *)
(* values of a schema are strings or None, which no statement can change.  *)
(***************************************************************************)

\* The changes a caller makes to the schema it was returned.
MaxChanges == 2

\* A copy that is the object it was given.
CopyReference(heap, ref) == [heap |-> heap, ref |-> ref]

\* deepcopy, line 35: a new dict with the items of the one referred to.
DeepCopy(heap, ref) == [heap |-> Append(heap, heap[ref]), ref |-> Len(heap) + 1]

\* del d[k].
DelItem(schema, k) == SelectSeq(schema, LAMBDA item : item.key # k)

MergeCallerFrame ==
    UNCHANGED <<read_pages, partition_daterange, chunk_fields, filter_records,
                read_records, merge_schemas, rfc3339, slice_fetch>>

\* A call on two dicts, or on one dict given twice.
MergeCallerInit ==
    /\ \E s1 \in Schemas, s2 \in Schemas, schema2 \in {1, 2}, assertions \in BOOLEAN :
        merge_caller = [pc |-> "called",
                        heap |-> <<s1, s2>>,
                        before |-> <<s1, s2>>,
                        schema1 |-> 1,
                        schema2 |-> schema2,
                        assertions |-> assertions,
                        merged_schema |-> 0,
                        item |-> 0,
                        changes |-> 0,
                        error |-> [type |-> None]]
    /\ read_pages = Idle
    /\ partition_daterange = Idle
    /\ chunk_fields = Idle
    /\ filter_records = Idle
    /\ read_records = Idle
    /\ merge_schemas = Idle
    /\ rfc3339 = Idle
    /\ slice_fetch = Idle

\* Lines 32-33: the supported-type check, which only reads the inputs.
CheckTypes ==
    /\ merge_caller.pc = "called"
    /\ LET invalid == FirstInvalid(merge_caller.heap[merge_caller.schema1]
                                   \o merge_caller.heap[merge_caller.schema2])
       IN IF merge_caller.assertions /\ invalid.type # None
          THEN merge_caller' = [merge_caller EXCEPT !.pc = "raised", !.error = invalid]
          ELSE merge_caller' = [merge_caller EXCEPT !.pc = "checked"]
    /\ MergeCallerFrame

\* Line 35: merged_schema = deepcopy(schema1).
CopySchema1 ==
    /\ merge_caller.pc = "checked"
    /\ LET c == DeepCopy(merge_caller.heap, merge_caller.schema1)
       IN merge_caller' = [merge_caller EXCEPT !.pc = "loop",
                                               !.heap = c.heap,
                                               !.merged_schema = c.ref,
                                               !.item = 1]
    /\ MergeCallerFrame

\* Lines 36-43: one turn of the loop over schema2.items().
MergeNextItem ==
    /\ merge_caller.pc = "loop"
    /\ merge_caller.item <= Len(merge_caller.heap[merge_caller.schema2])
    /\ LET kt == merge_caller.heap[merge_caller.schema2][merge_caller.item]
           r == MergeItem(merge_caller.heap[merge_caller.merged_schema], kt.key, kt.type)
       IN IF r.raised
          THEN merge_caller' = [merge_caller EXCEPT !.pc = "raised", !.error = r.error]
          ELSE merge_caller' =
                 [merge_caller EXCEPT !.heap[merge_caller.merged_schema] = r.merged_schema,
                                      !.item = @ + 1]
    /\ MergeCallerFrame

\* Line 45: the caller is handed the merged dict.
ReturnMerged ==
    /\ merge_caller.pc = "loop"
    /\ merge_caller.item > Len(merge_caller.heap[merge_caller.schema2])
    /\ merge_caller' = [merge_caller EXCEPT !.pc = "returned"]
    /\ MergeCallerFrame

\* The caller sets or deletes a key of the dict it was returned.
ChangeReturned ==
    /\ merge_caller.pc = "returned"
    /\ merge_caller.changes < MaxChanges
    /\ \E k \in SchemaKeys :
         \E changed \in {SetItem(merge_caller.heap[merge_caller.merged_schema], k, t) :
                            t \in SchemaTypes}
                        \cup {DelItem(merge_caller.heap[merge_caller.merged_schema], k)} :
            merge_caller' = [merge_caller EXCEPT !.heap[merge_caller.merged_schema] = changed,
                                                 !.changes = @ + 1]
    /\ MergeCallerFrame

MergeCallerNext ==
    \/ CheckTypes
    \/ CopySchema1
    \/ MergeNextItem
    \/ ReturnMerged
    \/ ChangeReturned

SpecMergeCaller == MergeCallerInit /\ [][MergeCallerNext]_vars

\* C11: during and after a call of merge_schemas, whether it returns or
\* raises, and after any changes the caller makes to the schema it was
\* returned, both input schemas hold exactly the items they held when the
\* call was made.
C11_MergeSchemasIsPure ==
    merge_caller.pc # "idle" =>
        /\ merge_caller.heap[merge_caller.schema1] = merge_caller.before[merge_caller.schema1]
        /\ merge_caller.heap[merge_caller.schema2] = merge_caller.before[merge_caller.schema2]

\* A merge that added a key of schema2 to the copy of schema1, and whose
\* result the caller then changed for a key of each input.
C11_Witness ==
    /\ merge_caller.pc = "returned"
    /\ merge_caller.changes = 2
    /\ merge_caller.heap[merge_caller.schema1] = <<[key |-> "a", type |-> "string"]>>
    /\ merge_caller.heap[merge_caller.schema2] = <<[key |-> "b", type |-> "string"]>>
    /\ merge_caller.heap[merge_caller.merged_schema] = <<[key |-> "b", type |-> "integer"]>>

(***************************************************************************)
(* _read_pages: the paginated fetch loop (components.py 321-342).          *)
(***************************************************************************)

\* Pages one run of the loop may fetch.
MaxPages == 3

\* Page tokens a response may carry.
Tokens == {"t1", "t2"}

\* Records a page may carry.
PageRecords == {"r1", "r2"}

\* What _fetch_next_page returns: a falsy value (None, or a response whose
\* status is not ok: requests.Response.__bool__ is its ok), or a successful
\* response with its records and, possibly, a next-page token.
Responses ==
    {[ok |-> FALSE, records |-> <<>>, token |-> None]}
    \cup [ok : {TRUE}, records : SeqUpTo(PageRecords, 1), token : Tokens \cup {None}]

\* self._next_page_token(response): the paginator's token of the response.
NextPageToken(resp) == resp.token

\* records_generator_fn(response): the records extracted from the response.
RecordsGeneratorFn(resp) == resp.records

\* The other components stay as they are.
ReadPagesFrame ==
    UNCHANGED <<partition_daterange, chunk_fields, filter_records,
                read_records, merge_schemas, rfc3339,
                merge_caller, slice_fetch>>

\* The state on entry: lines 327-328.
ReadPagesInit ==
    /\ read_pages = [pc |-> "fetch",
                     pagination_complete |-> FALSE,
                     next_page_token |-> None,
                     response |-> [ok |-> FALSE, records |-> <<>>, token |-> None],
                     fetched |-> <<>>,     \* the token of every fetch issued
                     received |-> <<>>,    \* every response returned
                     yielded |-> <<>>,     \* the records handed to the caller
                     error |-> None]
    /\ partition_daterange = Idle
    /\ chunk_fields = Idle
    /\ filter_records = Idle
    /\ read_records = Idle
    /\ merge_schemas = Idle
    /\ rfc3339 = Idle
    /\ merge_caller = Idle
    /\ slice_fetch = Idle

\* Line 330: response = self._fetch_next_page(..., next_page_token); the
\* requester returns a response or raises.
FetchNextPage ==
    /\ read_pages.pc = "fetch"
    /\ ~read_pages.pagination_complete
    /\ Len(read_pages.fetched) < MaxPages
    /\ \/ \E resp \in Responses :
            read_pages' = [read_pages EXCEPT
                !.pc = "breakpoint",
                !.response = resp,
                !.fetched = Append(@, read_pages.next_page_token),
                !.received = Append(@, resp)]
       \/ read_pages' = [read_pages EXCEPT
                !.pc = "raised",
                !.fetched = Append(@, read_pages.next_page_token),
                !.error = "FetchError"]
    /\ ReadPagesFrame

\* Line 331: breakpoint() hands control to sys.breakpointhook, by default
\* pdb.set_trace(): the loop is suspended until the debugger is told to
\* continue; a quit, or the end of its input, raises BdbQuit in this frame.
\* With PYTHONBREAKPOINT=0 the call returns at once.
Breakpoint ==
    /\ read_pages.pc = "breakpoint"
    /\ \/ read_pages' = [read_pages EXCEPT !.pc = "yield"]
       \/ read_pages' = [read_pages EXCEPT !.pc = "raised", !.error = "BdbQuit"]
    /\ ReadPagesFrame

\* Line 332: yield from records_generator_fn(response).
YieldRecords ==
    /\ read_pages.pc = "yield"
    /\ read_pages' = [read_pages EXCEPT
            !.pc = "advance",
            !.yielded = @ \o RecordsGeneratorFn(read_pages.response)]
    /\ ReadPagesFrame

\* Lines 334-339, and the loop test of line 329.
AdvancePage ==
    /\ read_pages.pc = "advance"
    /\ LET resp == read_pages.response
           token == IF ~resp.ok THEN read_pages.next_page_token
                    ELSE NextPageToken(resp)
           complete == ~resp.ok \/ token = None
       IN read_pages' = [read_pages EXCEPT
            !.pc = IF complete THEN "done" ELSE "fetch",
            !.pagination_complete = complete,
            !.next_page_token = token]
    /\ ReadPagesFrame

ReadPagesNext ==
    \/ FetchNextPage
    \/ Breakpoint
    \/ YieldRecords
    \/ AdvancePage

SpecReadPages == ReadPagesInit /\ [][ReadPagesNext]_vars

\* The responses received so far are all successful and the last of them
\* is the first one without a next-page token.
LastPageReceived ==
    LET rs == read_pages.received IN
    /\ rs # <<>>
    /\ \A k \in 1..Len(rs) : rs[k].ok
    /\ \A k \in 1..Len(rs) : (rs[k].token = None) <=> (k = Len(rs))

\* The loop has come to rest: it returned, or an exception left it.
ReadPagesAtRest == read_pages.pc \in {"done", "raised"}

\* C1: for successful responses of which the N-th is the first without a
\* next-page token, the loop issues exactly N fetches, the first with no token
\* and the k-th with the token of response k-1, yields the records of pages
\* 1..N in page order, and then finishes.
C1_FetchLoopYieldsAllPages ==
    (ReadPagesAtRest /\ LastPageReceived) =>
        LET rs == read_pages.received
            n == Len(rs)
        IN /\ read_pages.pc = "done"
           /\ Len(read_pages.fetched) = n
           /\ read_pages.fetched[1] = None
           /\ \A k \in 2..n : read_pages.fetched[k] = rs[k - 1].token
           /\ read_pages.yielded = Concat([k \in 1..n |-> rs[k].records])

\* The same, of the runs the loop returns from.
ReadPagesReturnedAllPages ==
    (read_pages.pc = "done" /\ LastPageReceived) =>
        LET rs == read_pages.received
            n == Len(rs)
        IN /\ Len(read_pages.fetched) = n
           /\ read_pages.fetched[1] = None
           /\ \A k \in 2..n : read_pages.fetched[k] = rs[k - 1].token
           /\ read_pages.yielded = Concat([k \in 1..n |-> rs[k].records])

(***************************************************************************)
(* read_records over _read_pages, for one slice (components.py 303-342):   *)
(* the loop over the field chunks of the slice, each request running the   *)
(* pagination loop, with the order of the fetches, of the ends of the      *)
(* paginations and of the emissions kept in a log.                         *)
(***************************************************************************)

\* The pages the request of one chunk is answered with.
MaxChunkPages == 2

\* The records the pages carry: two that share their key, one of another key.
FetchedRecords ==
    {r \in ChunkRecords :
        /\ r["end_date"] = <<"0", "1">>
        /\ \/ r["pivotValues"] = <<"A">>
           \/ r["pivotValues"] = <<"B">> /\ "likes" \in DOMAIN r
        /\ \A k \in DOMAIN r : k \in {"clicks", "likes"} => r[k] = 1}

\* What _fetch_next_page returns for a chunk request: a falsy value, or a
\* successful response with its records and, unless it is the last page the
\* API holds, possibly a next-page token.
ChunkResponses(last) ==
    {[ok |-> FALSE, records |-> <<>>, token |-> None]}
    \cup [ok : {TRUE}, records : SeqUpTo(FetchedRecords, 1),
          token : IF last THEN {None} ELSE Tokens \cup {None}]

RECURSIVE MergeAll(_, _)
\* Lines 314-315 over the records one page yields.
MergeAll(merged_records, records) ==
    IF records = <<>> THEN merged_records
    ELSE MergeAll(MergeInto(merged_records, Head(records)), Tail(records))

\* A loop over the chunks that is left after the first of them.
LoopLeftAfterFirstChunk(field_slice, field_date_chunks) ==
    field_slice >= 1 \/ field_slice >= field_date_chunks

\* Line 312: the for loop has no chunk left after the field_slice-th.
LoopExhausted(field_slice, field_date_chunks) == field_slice >= field_date_chunks

\* An entry of the log.
Event(ev, chunk) == [ev |-> ev, chunk |-> chunk]

SliceFetchFrame ==
    UNCHANGED <<read_pages, partition_daterange, chunk_fields, filter_records,
                read_records, merge_schemas, rfc3339, merge_caller>>

\* Lines 308-312: a slice with its field chunks, nothing fetched yet.
SliceFetchInit ==
    /\ \E n \in 0..MaxFieldChunks :
        slice_fetch = [pc |-> "for",
                       field_date_chunks |-> n,
                       field_slice |-> 0,
                       pagination_complete |-> FALSE,
                       next_page_token |-> None,
                       response |-> [ok |-> FALSE, records |-> <<>>, token |-> None],
                       pages |-> 0,
                       merged_records |-> <<>>,
                       emitted |-> <<>>,
                       log |-> <<>>,
                       error |-> None]
    /\ read_pages = Idle
    /\ partition_daterange = Idle
    /\ chunk_fields = Idle
    /\ filter_records = Idle
    /\ read_records = Idle
    /\ merge_schemas = Idle
    /\ rfc3339 = Idle
    /\ merge_caller = Idle

\* Lines 312-314 and 327-328: the next chunk, and the entry of its request
\* into the pagination loop.
ForFieldSlice ==
    /\ slice_fetch.pc = "for"
    /\ ~LoopExhausted(slice_fetch.field_slice, slice_fetch.field_date_chunks)
    /\ slice_fetch' = [slice_fetch EXCEPT
            !.pc = "fetch",
            !.field_slice = @ + 1,
            !.pagination_complete = FALSE,
            !.next_page_token = None,
            !.pages = 0]
    /\ SliceFetchFrame

\* Line 312, no chunk left: on to line 317.
EndOfFieldSlices ==
    /\ slice_fetch.pc = "for"
    /\ LoopExhausted(slice_fetch.field_slice, slice_fetch.field_date_chunks)
    /\ slice_fetch' = [slice_fetch EXCEPT !.pc = "merged"]
    /\ SliceFetchFrame

\* Line 330: the fetch of the next page of the chunk returns, or raises,
\* which ends read_records.
FetchChunkPage ==
    /\ slice_fetch.pc = "fetch"
    /\ ~slice_fetch.pagination_complete
    /\ slice_fetch.pages < MaxChunkPages
    /\ \/ \E resp \in ChunkResponses(slice_fetch.pages + 1 = MaxChunkPages) :
            slice_fetch' = [slice_fetch EXCEPT
                !.pc = "breakpoint",
                !.response = resp,
                !.pages = @ + 1,
                !.log = Append(@, Event("fetch", slice_fetch.field_slice))]
       \/ slice_fetch' = [slice_fetch EXCEPT
                !.pc = "raised",
                !.pages = @ + 1,
                !.error = "FetchError",
                !.log = @ \o <<Event("fetch", slice_fetch.field_slice),
                               Event("raise", slice_fetch.field_slice)>>]
    /\ SliceFetchFrame

\* Line 331: the debugger lets the loop go on, or BdbQuit ends read_records.
ChunkBreakpoint ==
    /\ slice_fetch.pc = "breakpoint"
    /\ \/ slice_fetch' = [slice_fetch EXCEPT !.pc = "yield"]
       \/ slice_fetch' = [slice_fetch EXCEPT
                !.pc = "raised",
                !.error = "BdbQuit",
                !.log = Append(@, Event("raise", slice_fetch.field_slice))]
    /\ SliceFetchFrame

\* Line 332, and line 315 for every record it yields.
MergePageRecords ==
    /\ slice_fetch.pc = "yield"
    /\ slice_fetch' = [slice_fetch EXCEPT
            !.pc = "advance",
            !.merged_records = MergeAll(@, slice_fetch.response.records)]
    /\ SliceFetchFrame

\* Lines 334-339, the loop test of line 329 and line 342: on to the next
\* page, or the pagination of the chunk is complete.
AdvanceChunkPage ==
    /\ slice_fetch.pc = "advance"
    /\ LET resp == slice_fetch.response
           token == IF ~resp.ok THEN slice_fetch.next_page_token
                    ELSE NextPageToken(resp)
           complete == ~resp.ok \/ token = None
       IN slice_fetch' = [slice_fetch EXCEPT
            !.pc = IF complete THEN "for" ELSE "fetch",
            !.pagination_complete = complete,
            !.next_page_token = token,
            !.log = IF complete
                    THEN Append(@, Event("complete", slice_fetch.field_slice))
                    ELSE @]
    /\ SliceFetchFrame

\* Line 317: the caller is handed the next merged record.
EmitMerged ==
    /\ slice_fetch.pc = "merged"
    /\ Len(slice_fetch.emitted) < Len(slice_fetch.merged_records)
    /\ slice_fetch' = [slice_fetch EXCEPT
            !.emitted = Append(@, slice_fetch.merged_records[Len(@) + 1].value),
            !.log = Append(@, Event("emit", 0))]
    /\ SliceFetchFrame

\* Line 317, no merged record left: read_records ends.
EndOfSlice ==
    /\ slice_fetch.pc = "merged"
    /\ Len(slice_fetch.emitted) = Len(slice_fetch.merged_records)
    /\ slice_fetch' = [slice_fetch EXCEPT !.pc = "done"]
    /\ SliceFetchFrame

SliceFetchNext ==
    \/ ForFieldSlice
    \/ EndOfFieldSlices
    \/ FetchChunkPage
    \/ ChunkBreakpoint
    \/ MergePageRecords
    \/ AdvanceChunkPage
    \/ EmitMerged
    \/ EndOfSlice

SpecSliceFetch == SliceFetchInit /\ [][SliceFetchNext]_vars

\* The positions of the log before position i that hold the event.
Earlier(i, ev, chunk) ==
    {j \in 1..(i - 1) : slice_fetch.log[j] = Event(ev, chunk)}

\* C12: within one slice the chunks are fetched in chunk order, a chunk's
\* first fetch coming after the pagination of every earlier chunk is
\* complete and none of its fetches after its own is; a merged record is
\* emitted only after the pagination of every chunk, the last one included,
\* is complete, and nothing is fetched once a record is emitted; and if a
\* fetch, or the pagination loop around it, raises, nothing more happens and
\* no merged record of the slice is emitted.
C12_ChunksInOrderThenEmission ==
    slice_fetch.pc # "idle" =>
        LET log == slice_fetch.log
            n == slice_fetch.field_date_chunks
        IN /\ \A i \in 1..Len(log) :
                /\ log[i].ev = "fetch" =>
                     /\ log[i].chunk \in 1..n
                     /\ \A c \in 1..(log[i].chunk - 1) : Earlier(i, "complete", c) # {}
                     /\ Earlier(i, "complete", log[i].chunk) = {}
                     /\ \A j \in 1..(i - 1) : log[j].ev # "emit"
                /\ log[i].ev = "emit" =>
                     \A c \in 1..n : Earlier(i, "complete", c) # {}
                /\ log[i].ev = "raise" =>
                     /\ i = Len(log)
                     /\ \A j \in 1..(i - 1) : log[j].ev # "emit"
           /\ Len(slice_fetch.emitted) = Cardinality({i \in 1..Len(log) : log[i].ev = "emit"})
           /\ slice_fetch.pc = "raised" =>
                /\ slice_fetch.emitted = <<>>
                /\ log # <<>> /\ log[Len(log)].ev = "raise"

\* A slice of two chunks, the first answered with two pages: the merged
\* record, with a field of each chunk, is emitted after the four events of
\* the first chunk and the two of the second.
C12_Witness ==
    /\ slice_fetch.pc = "done"
    /\ slice_fetch.field_date_chunks = 2
    /\ slice_fetch.log = <<Event("fetch", 1), Event("fetch", 1), Event("complete", 1),
                           Event("fetch", 2), Event("complete", 2), Event("emit", 0)>>
    /\ Len(slice_fetch.emitted) = 1
    /\ DOMAIN slice_fetch.emitted[1] = {"end_date", "pivotValues", "clicks", "likes"}

====
